---- MODULE Spec2Model ----
(***************************************************************************)
(* Model of the Clash Royale tracker backend: the ClashRoyaleService       *)
(* client (services/clash_royale_service.py) and the Flask route handlers  *)
(* that call it (routes/*.py).                                             *)
(*                                                                         *)
(* Strings that the code builds or inspects character by character (tags,  *)
(* seasons, endpoints) are sequences of one-character strings, so that     *)
(* startswith, replace, upper and concatenation are computed as Python     *)
(* computes them.  Message texts and response bodies are opaque strings.   *)
(***************************************************************************)
EXTENDS Integers, Sequences, FiniteSets, TLC

VARIABLES
    pc,             \* "idle" | "waiting" (GET in flight) | "returned"
    route,          \* route handler serving the request, or "none" for a direct client call
    op,             \* client operation in progress
    arg,            \* its argument
    gets,           \* outbound GETs issued by the client operation in progress
    sent,           \* outbound requests issued while serving the request, in order
    got,            \* what session.get produced for the last request: a response or a raised exception
    result,         \* outcome of the client operation: Return(v) or Raise(e)
    http,           \* the route handler's response
    view_args,            \* the URL or query argument of the route request
    locals,         \* what the handler keeps from an earlier service call
    config,         \* the config module: not imported, imported (with the API key) or failed
    app,            \* the app module: not imported, created, or failed at import
    service,        \* the ClashRoyaleService instance in use
    wire,           \* the session.get calls made while serving the request, in order
    workers         \* the threads sharing one service instance (second specification)

vars == <<pc, route, op, arg, gets, sent, got, result, http, view_args, locals, config, app, service, wire, workers>>

---------------------------------------------------------------------------
(* Bounds *)

MaxTagLen == 3
MaxKeyFileLen == 1
NumWorkers == 2

---------------------------------------------------------------------------
(* Configuration (config.py) *)

CLASH_ROYALE_API_BASE_URL ==
    <<"h", "t", "t", "p", "s", ":", "/", "/", "a", "p", "i", ".", "c", "l", "a", "s",
      "h", "r", "o", "y", "a", "l", "e", ".", "c", "o", "m", "/", "v", "1", "/">>
API_REQUEST_TIMEOUT == 30
API_MAX_RETRIES == 3

---------------------------------------------------------------------------
(* Strings *)

TagChars == {"#", "a", "A"}

RECURSIVE SeqsUpTo(_)
SeqsUpTo(n) ==
    IF n = 0 THEN {<<>>}
    ELSE LET shorter == SeqsUpTo(n - 1)
         IN  shorter \cup {Append(s, c) : s \in {t \in shorter : Len(t) = n - 1}, c \in TagChars}

\* A tag arrives as a URL path segment, so it is never empty.
Tags == SeqsUpTo(MaxTagLen) \ {<<>>}

\* str.upper() on one character
UpperChar(c) == IF c = "a" THEN "A" ELSE c

\* str.upper()
Upper(s) == [i \in 1..Len(s) |-> UpperChar(s[i])]

\* str.replace(old, new) for a one-character old
RECURSIVE Replace(_, _, _)
Replace(s, old, new) ==
    IF s = <<>> THEN <<>>
    ELSE (IF Head(s) = old THEN new ELSE <<Head(s)>>) \o Replace(Tail(s), old, new)

\* str.startswith(c) for a one-character c
StartsWith(s, c) == Len(s) > 0 /\ s[1] = c

\* str.rstrip(c) and str.lstrip(c) for a one-character c: every trailing / leading c goes
RECURSIVE RStrip(_, _)
RStrip(s, c) ==
    IF s # <<>> /\ s[Len(s)] = c THEN RStrip(SubSeq(s, 1, Len(s) - 1), c) ELSE s

RECURSIVE LStrip(_, _)
LStrip(s, c) ==
    IF s # <<>> /\ Head(s) = c THEN LStrip(Tail(s), c) ELSE s

\* str.strip(): leading and trailing whitespace goes
Whitespace == {" ", "\n"}

RECURSIVE Strip(_)
Strip(s) ==
    IF s # <<>> /\ Head(s) \in Whitespace THEN Strip(Tail(s))
    ELSE IF s # <<>> /\ s[Len(s)] \in Whitespace THEN Strip(SubSeq(s, 1, Len(s) - 1))
    ELSE s

\* all strings over chars of length at most n
RECURSIVE SeqsOver(_, _)
SeqsOver(chars, n) ==
    IF n = 0 THEN {<<>>}
    ELSE LET shorter == SeqsOver(chars, n - 1)
         IN  shorter \cup {Append(s, c) : s \in {t \in shorter : Len(t) = n - 1}, c \in chars}

PCT23 == <<"%", "2", "3">>
S_players == <<"p", "l", "a", "y", "e", "r", "s", "/">>
S_battlelog == <<"/", "b", "a", "t", "t", "l", "e", "l", "o", "g">>
S_clans_ == <<"c", "l", "a", "n", "s", "/">>
S_warlog == <<"/", "w", "a", "r", "l", "o", "g">>
S_currentwar == <<"/", "c", "u", "r", "r", "e", "n", "t", "w", "a", "r">>
S_cards == <<"c", "a", "r", "d", "s">>
S_clans == <<"c", "l", "a", "n", "s">>
S_tournaments == <<"t", "o", "u", "r", "n", "a", "m", "e", "n", "t", "s">>
S_current == <<"c", "u", "r", "r", "e", "n", "t">>
S_pol == <<"l", "o", "c", "a", "t", "i", "o", "n", "s", "/", "g", "l", "o", "b", "a", "l", "/",
           "p", "a", "t", "h", "o", "f", "l", "e", "g", "e", "n", "d", "/">>
S_pol_players == S_pol \o <<"p", "l", "a", "y", "e", "r", "s">>
S_rankings_players == <<"/", "r", "a", "n", "k", "i", "n", "g", "s", "/", "p", "l", "a", "y", "e", "r", "s">>

Seasons == {S_current, <<"C", "u", "r", "r", "e", "n", "t">>, <<"2", "0", "2", "5", "-", "1", "2">>}
Names == {<<>>, <<"g", "c">>, <<"a", " ", "#">>}
Limits == {-1, 0, 50, 199, 200, 201, 500}

---------------------------------------------------------------------------
(* Outcomes of a call: a returned value or a raised exception *)

Return(v) == [ok |-> TRUE, value |-> v]
Raise(e) == [ok |-> FALSE, exc |-> e]
Exc(cls, msg) == [cls |-> cls, msg |-> msg]

---------------------------------------------------------------------------
(* config.py: the API key file and the Config class *)

PLACEHOLDER ==
    <<"Y", "O", "U", "R", "_", "C", "L", "A", "S", "H", "_", "R", "O", "Y", "A", "L",
      "E", "_", "A", "P", "I", "_", "K", "E", "Y", "_", "H", "E", "R", "E">>

MSG_REPLACE_KEY == "Please replace 'YOUR_CLASH_ROYALE_API_KEY_HERE' in api_key.txt ..."
MSG_KEY_FILE_MISSING == "API key file not found ..."

\* api_key.txt as found on disk
KeyFiles ==
    {[exists |-> FALSE, content |-> <<>>]} \cup
    {[exists |-> TRUE, content |-> c] :
        c \in SeqsOver({" ", "k"}, MaxKeyFileLen) \cup {PLACEHOLDER, PLACEHOLDER \o <<"\n">>}}

\* a key reader that rejects only the empty string, before stripping
get_api_key_unstripped_check(file) ==
    IF ~file.exists THEN Raise(Exc("FileNotFoundError", <<MSG_KEY_FILE_MISSING>>))
    ELSE IF file.content = <<>> \/ file.content = PLACEHOLDER THEN
             Raise(Exc("ValueError", <<MSG_REPLACE_KEY>>))
         ELSE Return(Strip(file.content))

get_api_key(file) ==
    IF ~file.exists THEN Raise(Exc("FileNotFoundError", <<MSG_KEY_FILE_MISSING>>))
    ELSE LET api_key == Strip(file.content)
         IN  IF api_key = <<>> \/ api_key = PLACEHOLDER THEN
                 Raise(Exc("ValueError", <<MSG_REPLACE_KEY>>))
             ELSE Return(api_key)

ConfigUnloaded == [status |-> "unloaded"]

\* executing config.py: the Config class body calls get_api_key()
ImportConfigModule(file) ==
    LET key == get_api_key(file)
    IN  IF key.ok THEN [status |-> "loaded",
                        CLASH_ROYALE_API_KEY |-> key.value,
                        CLASH_ROYALE_API_BASE_URL |-> CLASH_ROYALE_API_BASE_URL,
                        API_REQUEST_TIMEOUT |-> API_REQUEST_TIMEOUT,
                        API_MAX_RETRIES |-> API_MAX_RETRIES]
        ELSE [status |-> "error", exc |-> key.exc]

---------------------------------------------------------------------------
(* app.py and the routes package *)

\* the names routes/__init__.py binds, and the submodules of the package
RoutesExports == {"player_bp", "clan_bp", "card_bp", "tournament_bp"}
RoutesSubmodules == {"player_routes", "clan_routes", "card_routes", "tournament_routes",
                     "leaderboard_routes"}

\* the names app.py imports from the routes package
AppImports == {"player_bp", "clan_bp", "card_bp", "tournament_bp", "leaderboard_bp"}

\* `from routes import name`: an attribute of the package, else a submodule, else ImportError
CanImportFromRoutes(name) == name \in RoutesExports \cup RoutesSubmodules

AppUnimported == [state |-> "unimported", blueprints |-> {}]

\* importing app.py (with config already executed) and calling create_app
ImportAppModule ==
    IF \E name \in AppImports : ~CanImportFromRoutes(name) THEN
        [state |-> "import_error", blueprints |-> {}]
    ELSE
        [state |-> "created", blueprints |-> AppImports]

---------------------------------------------------------------------------
(* JSON values and response bodies *)

Obj(fields) == [type |-> "object", val |-> fields]
Arr(items) == [type |-> "array", val |-> items]
Str(s) == [type |-> "string", val |-> s]
Num(n) == [type |-> "number", val |-> n]
Null == [type |-> "null", val |-> <<>>]
EmptyDict == [type |-> "object", val |-> <<>>]

B_battles == "[{\"type\":\"PvP\",\"battleTime\":\"t2\",\"gameMode\":{\"name\":\"Ladder\"},\"team\":[{\"cards\":[\"c1\",\"c2\"]},{\"cards\":[\"c3\"]}]},{\"type\":\"2v2\",\"battleTime\":\"t1\",\"team\":[{\"cards\":[\"c9\"]}]}]"
B_battle_noteam == "[{\"type\":\"PvP\",\"team\":[]},{\"team\":[{\"cards\":[\"c9\"]}]}]"
B_battle_nocards == "[{\"team\":[{\"tag\":\"#A\"}]}]"
B_battle_badteam == "[{\"team\":[\"x\"]}]"
B_battle_badmode == "[{\"gameMode\":\"Ladder\",\"team\":[{\"cards\":[\"c1\"]}]}]"
B_emptylist == "[]"
B_cards == "{\"items\":[{\"name\":\"A\",\"rarity\":\"a\"},{\"name\":\"aa\",\"rarity\":\"A\"},{\"name\":\"a\",\"rarity\":\"a\"}]}"

Bodies == {"{\"tag\":\"#A\",\"memberList\":[\"m1\",\"m2\"],\"memberCount\":2}",
           "{\"tag\":\"#A\",\"memberList\":[\"m1\"]}",
           "{\"tag\":\"#A\",\"memberCount\":7}",
           "{\"tag\":\"#A\"}",
           "[\"x\"]",
           B_battles, B_battle_noteam, B_battle_nocards, B_battle_badteam, B_battle_badmode,
           B_emptylist, B_cards,
           "<html>Bad gateway</html>",
           ""}

\* the bodies sent along with a status other than 200
ErrorBodies == {"{\"tag\":\"#A\"}", "<html>Bad gateway</html>", ""}

WellFormed(text) == text \notin {"<html>Bad gateway</html>", ""}

\* a card of the cards listing; name and rarity are spelled out for str.lower()
Card(name, rarity) == Obj([name |-> Str(name), rarity |-> Str(rarity)])

\* json.loads on the bodies above
ParseJson(text) ==
    CASE text = "{\"tag\":\"#A\",\"memberList\":[\"m1\",\"m2\"],\"memberCount\":2}" ->
            Obj([tag |-> Str(<<"#", "A">>), memberList |-> Arr(<<Str(<<"m", "1">>), Str(<<"m", "2">>)>>),
                 memberCount |-> Num(2)])
      [] text = "{\"tag\":\"#A\",\"memberList\":[\"m1\"]}" ->
            Obj([tag |-> Str(<<"#", "A">>), memberList |-> Arr(<<Str(<<"m", "1">>)>>)])
      [] text = "{\"tag\":\"#A\",\"memberCount\":7}" ->
            Obj([tag |-> Str(<<"#", "A">>), memberCount |-> Num(7)])
      [] text = "{\"tag\":\"#A\"}" ->
            Obj([tag |-> Str(<<"#", "A">>)])
      [] text = "[\"x\"]" ->
            Arr(<<Str(<<"x">>)>>)
      [] text = B_battles ->
            Arr(<<Obj([type |-> Str(<<"P", "v", "P">>), battleTime |-> Str(<<"t", "2">>),
                       gameMode |-> Obj([name |-> Str(<<"L", "a", "d", "d", "e", "r">>)]),
                       team |-> Arr(<<Obj([cards |-> Arr(<<Str(<<"c", "1">>), Str(<<"c", "2">>)>>)]),
                                      Obj([cards |-> Arr(<<Str(<<"c", "3">>)>>)])>>)]),
                  Obj([type |-> Str(<<"2", "v", "2">>), battleTime |-> Str(<<"t", "1">>),
                       team |-> Arr(<<Obj([cards |-> Arr(<<Str(<<"c", "9">>)>>)])>>)])>>)
      [] text = B_battle_noteam ->
            Arr(<<Obj([type |-> Str(<<"P", "v", "P">>), team |-> Arr(<<>>)]),
                  Obj([team |-> Arr(<<Obj([cards |-> Arr(<<Str(<<"c", "9">>)>>)])>>)])>>)
      [] text = B_battle_nocards ->
            Arr(<<Obj([team |-> Arr(<<Obj([tag |-> Str(<<"#", "A">>)])>>)])>>)
      [] text = B_battle_badteam ->
            Arr(<<Obj([team |-> Arr(<<Str(<<"x">>)>>)])>>)
      [] text = B_battle_badmode ->
            Arr(<<Obj([gameMode |-> Str(<<"L", "a", "d", "d", "e", "r">>),
                       team |-> Arr(<<Obj([cards |-> Arr(<<Str(<<"c", "1">>)>>)])>>)])>>)
      [] text = B_emptylist ->
            Arr(<<>>)
      [] text = B_cards ->
            Obj([items |-> Arr(<<Card(<<"A">>, <<"a">>), Card(<<"a", "a">>, <<"A">>),
                                 Card(<<"a">>, <<"a">>)>>)])

\* the text of the JSONDecodeError for a malformed body
JsonErrorText(text) ==
    IF text = "" THEN "Expecting value: line 1 column 1 (char 0)"
    ELSE "Expecting value: line 1 column 1 (char 0): <html>"

---------------------------------------------------------------------------
(* Exception classes *)

\* issubclass(cls, base) for the exception classes involved.  JSONDecodeError is
\* requests.exceptions.JSONDecodeError, which Response.json() raises and which
\* derives from RequestException.
IsSubclass(cls, base) ==
    \/ cls = base
    \/ base = "Exception"
    \/ base = "RequestException" /\
         cls \in {"Timeout", "ConnectTimeout", "ReadTimeout", "ConnectionError", "HTTPError",
                  "JSONDecodeError"}
    \/ base = "Timeout" /\ cls \in {"ConnectTimeout", "ReadTimeout"}
    \/ base = "ConnectionError" /\ cls = "ConnectTimeout"

---------------------------------------------------------------------------
(* The upstream API as seen through session.get *)

Statuses == {200, 204, 304, 400, 403, 404, 429, 500}

NetworkFailures ==
    {[raised |-> "ReadTimeout", str |-> "Read timed out."],
     [raised |-> "ConnectTimeout", str |-> "Connection to api timed out."],
     [raised |-> "ConnectionError", str |-> "Name or service not known"],
     [raised |-> "ConnectionError", str |-> "Connection refused"],
     [raised |-> "ConnectionError", str |-> "Connection reset by peer"]}

Responses ==
    [status_code : {200}, text : Bodies] \cup [status_code : Statuses \ {200}, text : ErrorBodies]

Outcomes == NetworkFailures \cup Responses

IsResponse(o) == "status_code" \in DOMAIN o

\* Response.raise_for_status(): HTTPError for 4xx and 5xx only
raise_for_status(response) ==
    response.status_code >= 400 /\ response.status_code < 600

MSG_TIMEOUT == "Request to Clash Royale API timed out"
MSG_404 == "Resource not found. Check the player tag or clan tag."
MSG_403 == "Access forbidden. Check your API key."
MSG_429 == "Rate limit exceeded. Please try again later."
MSG_STATUS == "API request failed with status "
MSG_CONNECT == "Failed to connect to Clash Royale API: "

\* the except clauses with the generic RequestException clause moved above the Timeout clause
HandleRaised_GenericFirst(cls, str, response) ==
    IF IsSubclass(cls, "HTTPError") THEN
        CASE response.status_code = 404 -> Raise(Exc("ValueError", <<MSG_404>>))
          [] response.status_code = 403 -> Raise(Exc("ValueError", <<MSG_403>>))
          [] response.status_code = 429 -> Raise(Exc("ValueError", <<MSG_429>>))
          [] OTHER -> Raise(Exc("ValueError",
                          <<MSG_STATUS, ToString(response.status_code), ": ", response.text>>))
    ELSE IF IsSubclass(cls, "RequestException") THEN
        Raise(Exc("RequestException", <<MSG_CONNECT, str>>))
    ELSE IF IsSubclass(cls, "Timeout") THEN
        Raise(Exc("RequestException", <<MSG_TIMEOUT>>))
    ELSE
        Raise(Exc(cls, <<str>>))

\* the except clauses with the 403 branch left out
HandleRaised_No403(cls, str, response) ==
    IF IsSubclass(cls, "Timeout") THEN
        Raise(Exc("RequestException", <<MSG_TIMEOUT>>))
    ELSE IF IsSubclass(cls, "HTTPError") THEN
        CASE response.status_code = 404 -> Raise(Exc("ValueError", <<MSG_404>>))
          [] response.status_code = 429 -> Raise(Exc("ValueError", <<MSG_429>>))
          [] OTHER -> Raise(Exc("ValueError",
                          <<MSG_STATUS, ToString(response.status_code), ": ", response.text>>))
    ELSE IF IsSubclass(cls, "RequestException") THEN
        Raise(Exc("RequestException", <<MSG_CONNECT, str>>))
    ELSE
        Raise(Exc(cls, <<str>>))

\* the except clauses with 429 raised as a RequestException, like a timeout
HandleRaised_429AsRequestException(cls, str, response) ==
    IF IsSubclass(cls, "Timeout") THEN
        Raise(Exc("RequestException", <<MSG_TIMEOUT>>))
    ELSE IF IsSubclass(cls, "HTTPError") THEN
        CASE response.status_code = 404 -> Raise(Exc("ValueError", <<MSG_404>>))
          [] response.status_code = 403 -> Raise(Exc("ValueError", <<MSG_403>>))
          [] response.status_code = 429 -> Raise(Exc("RequestException", <<MSG_429>>))
          [] OTHER -> Raise(Exc("ValueError",
                          <<MSG_STATUS, ToString(response.status_code), ": ", response.text>>))
    ELSE IF IsSubclass(cls, "RequestException") THEN
        Raise(Exc("RequestException", <<MSG_CONNECT, str>>))
    ELSE
        Raise(Exc(cls, <<str>>))

\* the except clauses of _make_request, tried in order for a raised class
HandleRaised(cls, str, response) ==
    IF IsSubclass(cls, "Timeout") THEN
        Raise(Exc("RequestException", <<MSG_TIMEOUT>>))
    ELSE IF IsSubclass(cls, "HTTPError") THEN
        CASE response.status_code = 404 -> Raise(Exc("ValueError", <<MSG_404>>))
          [] response.status_code = 403 -> Raise(Exc("ValueError", <<MSG_403>>))
          [] response.status_code = 429 -> Raise(Exc("ValueError", <<MSG_429>>))
          [] OTHER -> Raise(Exc("ValueError",
                          <<MSG_STATUS, ToString(response.status_code), ": ", response.text>>))
    ELSE IF IsSubclass(cls, "RequestException") THEN
        Raise(Exc("RequestException", <<MSG_CONNECT, str>>))
    ELSE
        Raise(Exc(cls, <<str>>))

\* _make_request, from the outcome o of session.get onwards
_make_request(o) ==
    IF ~IsResponse(o) THEN HandleRaised(o.raised, o.str, o)
    ELSE IF raise_for_status(o) THEN HandleRaised("HTTPError", "", o)
    ELSE IF ~WellFormed(o.text) THEN HandleRaised("JSONDecodeError", JsonErrorText(o.text), o)
    ELSE Return(ParseJson(o.text))

---------------------------------------------------------------------------
(* ClashRoyaleService: construction and the GET it issues *)

S_Bearer == <<"B", "e", "a", "r", "e", "r", " ">>

\* the headers a requests.Session starts with, as far as the code touches them
DefaultHeaders == [Accept |-> "*/*", Connection |-> "keep-alive"]

\* dict.update
Update(d, new) ==
    [k \in DOMAIN d \cup DOMAIN new |-> IF k \in DOMAIN new THEN new[k] ELSE d[k]]

\* a constructor that keeps base_url as given
ClashRoyaleService_KeepSlash(api_key, base_url, timeout) ==
    [api_key |-> api_key,
     base_url |-> base_url,
     timeout |-> timeout,
     headers |-> Update(DefaultHeaders, [Authorization |-> S_Bearer \o api_key,
                                         Accept |-> "application/json"])]

\* __init__
ClashRoyaleService(api_key, base_url, timeout) ==
    [api_key |-> api_key,
     base_url |-> RStrip(base_url, "/"),
     timeout |-> timeout,
     headers |-> Update(DefaultHeaders, [Authorization |-> S_Bearer \o api_key,
                                         Accept |-> "application/json"])]

\* the url _make_request builds and the session.get call it makes with it
SessionGet(self, req) ==
    [url |-> self.base_url \o <<"/">> \o LStrip(req.endpoint, "/"),
     params |-> req.params,
     timeout |-> self.timeout,
     headers |-> self.headers]

\* get_clash_royale_service(): a new instance from the application's config
get_clash_royale_service(cfg) ==
    ClashRoyaleService(cfg.CLASH_ROYALE_API_KEY, cfg.CLASH_ROYALE_API_BASE_URL,
                       cfg.API_REQUEST_TIMEOUT)

S_example == <<"h", "t", "t", "p", "s", ":", "/", "/", "a", "p", "i", ".", "e", "x", "a", "m",
      "p", "l", "e", ".", "c", "o", "m", "/", "v", "1">>

\* the arguments a client is constructed with when used on its own
ConstructorArgs ==
    {[api_key |-> <<"k">>, base_url |-> S_example \o <<"/">>, timeout |-> 30],
     [api_key |-> <<>>, base_url |-> S_example, timeout |-> 5],
     [api_key |-> <<"k">>, base_url |-> S_example \o <<"/", "/">>, timeout |-> 5]}

---------------------------------------------------------------------------
(* ClashRoyaleService: the request each operation makes *)

None == [none |-> TRUE]

Request(endpoint, params) == [endpoint |-> endpoint, params |-> params]

\* a player lookup that prepends '%23' without looking at the tag
get_player_info_prepend(player_tag) ==
    Request(S_players \o PCT23 \o player_tag, None)

get_player_info(player_tag) ==
    LET tag == IF StartsWith(player_tag, "#") THEN PCT23 \o Tail(player_tag)
               ELSE PCT23 \o player_tag
    IN  Request(S_players \o tag, None)

\* a battle log lookup that prepends '%23' without looking at the tag
get_player_battle_log_prepend(player_tag) ==
    Request(S_players \o PCT23 \o player_tag \o S_battlelog, None)

get_player_battle_log(player_tag) ==
    LET tag == IF StartsWith(player_tag, "#") THEN PCT23 \o Tail(player_tag)
               ELSE PCT23 \o player_tag
    IN  Request(S_players \o tag \o S_battlelog, None)

get_clan_info(clan_tag) ==
    LET clean_tag == Upper(Replace(clan_tag, "#", <<>>))
        encoded_tag == Replace(clean_tag, "#", PCT23)
    IN  Request(S_clans_ \o encoded_tag, None)

\* a war log lookup that keeps the letter case of the tag
get_clan_war_log_keepcase(clan_tag) ==
    LET clean_tag == Replace(clan_tag, "#", <<>>)
        encoded_tag == Replace(clean_tag, "#", PCT23)
    IN  Request(S_clans_ \o encoded_tag \o S_warlog, None)

get_clan_war_log(clan_tag) ==
    LET clean_tag == Upper(Replace(clan_tag, "#", <<>>))
        encoded_tag == Replace(clean_tag, "#", PCT23)
    IN  Request(S_clans_ \o encoded_tag \o S_warlog, None)

get_clan_current_war(clan_tag) ==
    LET clean_tag == Upper(Replace(clan_tag, "#", <<>>))
        encoded_tag == Replace(clean_tag, "#", PCT23)
    IN  Request(S_clans_ \o encoded_tag \o S_currentwar, None)

get_cards == Request(S_cards, None)

\* a leaderboard lookup that also takes 'Current' for the current season
get_pol_leaderboard_anycase(season) ==
    IF season \in {S_current, <<"C", "u", "r", "r", "e", "n", "t">>} THEN
        Request(S_pol_players, None)
    ELSE Request(S_pol \o season \o S_rankings_players, None)

get_pol_leaderboard(season) ==
    IF season = S_current THEN Request(S_pol_players, None)
    ELSE Request(S_pol \o season \o S_rankings_players, None)

\* a tournament search that also sends a page size
get_tournaments_with_limit(name) == Request(S_tournaments, [name |-> name, limit |-> 10])

get_tournaments(name) == Request(S_tournaments, [name |-> name])

Min(a, b) == IF a < b THEN a ELSE b

\* the default of get_popular_clans' limit parameter
DEFAULT_LIMIT == 200

\* a popular-clans lookup that sends the limit as given
get_popular_clans_unclamped(limit) ==
    Request(S_clans, [minScore |-> 40000, limit |-> limit])

get_popular_clans(limit) ==
    Request(S_clans, [minScore |-> 40000, limit |-> Min(limit, 200)])

\* get_clan_members delegates to get_clan_info for its only request ...
get_clan_members(clan_tag) == get_clan_info(clan_tag)

\* dict.get(key, default); a JSON array has no .get
HasGet(v) == v.type = "object"
DictGet(d, key, default) == IF key \in DOMAIN d.val THEN d.val[key] ELSE default

\* a return value whose memberCount falls back to 1 instead of 0
get_clan_members_return_default1(clan_info) ==
    IF ~clan_info.ok THEN clan_info
    ELSE IF ~HasGet(clan_info.value) THEN
        Raise(Exc("AttributeError", <<"'list' object has no attribute 'get'">>))
    ELSE Return(Obj([members |-> DictGet(clan_info.value, "memberList", Arr(<<>>)),
                     memberCount |-> DictGet(clan_info.value, "memberCount", Num(1))]))

\* ... and builds its return value from what get_clan_info returned or raised
get_clan_members_return(clan_info) ==
    IF ~clan_info.ok THEN clan_info
    ELSE IF ~HasGet(clan_info.value) THEN
        Raise(Exc("AttributeError", <<"'list' object has no attribute 'get'">>))
    ELSE Return(Obj([members |-> DictGet(clan_info.value, "memberList", Arr(<<>>)),
                     memberCount |-> DictGet(clan_info.value, "memberCount", Num(0))]))

ClientOps == {"get_player_info", "get_player_battle_log", "get_clan_info", "get_clan_members",
              "get_clan_war_log", "get_clan_current_war", "get_cards", "get_pol_leaderboard",
              "get_tournaments", "get_popular_clans"}

TagOps == {"get_player_info", "get_player_battle_log", "get_clan_info", "get_clan_members",
           "get_clan_war_log", "get_clan_current_war"}

\* the arguments an operation is called with
OpArgs(o) ==
    CASE o \in TagOps -> Tags
      [] o = "get_cards" -> {None}
      [] o = "get_pol_leaderboard" -> Seasons
      [] o = "get_tournaments" -> Names
      [] o = "get_popular_clans" -> {None} \cup {[limit |-> n] : n \in Limits}

OpRequest(o, a) ==
    CASE o = "get_player_info" -> get_player_info(a)
      [] o = "get_player_battle_log" -> get_player_battle_log(a)
      [] o = "get_clan_info" -> get_clan_info(a)
      [] o = "get_clan_members" -> get_clan_members(a)
      [] o = "get_clan_war_log" -> get_clan_war_log(a)
      [] o = "get_clan_current_war" -> get_clan_current_war(a)
      [] o = "get_cards" -> get_cards
      [] o = "get_pol_leaderboard" -> get_pol_leaderboard(a)
      [] o = "get_tournaments" -> get_tournaments(a)
      [] o = "get_popular_clans" -> get_popular_clans(IF a = None THEN DEFAULT_LIMIT ELSE a.limit)

\* every operation reshaping the payload the way get_clan_members does
OpReturn_AlwaysMembers(o, r) == get_clan_members_return(r)

\* what the operation hands back once _make_request has returned or raised r
OpReturn(o, r) == IF o = "get_clan_members" THEN get_clan_members_return(r) ELSE r

---------------------------------------------------------------------------
(* Route handlers *)

Routes == {"players.get_player", "players.get_player_battle_log",
           "players.get_current_deck", "players.get_player_stats",
           "cards.get_cards_by_rarity", "cards.get_card_info",
           "clans.get_clan", "clans.get_clan_members", "clans.get_clan_war_log",
           "clans.get_clan_current_war", "cards.get_all_cards",
           "leaderboards.get_pol_leaderboard", "tournaments.search_tournaments"}

RouteOp(r) ==
    CASE r = "players.get_player" -> "get_player_info"
      [] r = "players.get_player_battle_log" -> "get_player_battle_log"
      [] r = "clans.get_clan" -> "get_clan_info"
      [] r = "clans.get_clan_members" -> "get_clan_members"
      [] r = "clans.get_clan_war_log" -> "get_clan_war_log"
      [] r = "clans.get_clan_current_war" -> "get_clan_current_war"
      [] r = "cards.get_all_cards" -> "get_cards"
      [] r = "players.get_current_deck" -> "get_player_battle_log"
      [] r = "players.get_player_stats" -> "get_player_info"
      [] r = "cards.get_cards_by_rarity" -> "get_cards"
      [] r = "cards.get_card_info" -> "get_cards"
      [] r = "leaderboards.get_pol_leaderboard" -> "get_pol_leaderboard"
      [] r = "tournaments.search_tournaments" -> "get_tournaments"

\* request.args.get('name'): the query string may or may not carry a name
QueryArgs == {[has_name |-> FALSE, name |-> <<>>]} \cup {[has_name |-> TRUE, name |-> n] : n \in Names}

\* the <rarity> and <name> parts of the card URLs
CardWords == {<<"a">>, <<"A">>, <<"a", "a">>, <<"b">>}

RouteArgs(r) ==
    CASE r = "tournaments.search_tournaments" -> QueryArgs
      [] r \in {"cards.get_cards_by_rarity", "cards.get_card_info"} -> CardWords
      [] OTHER -> OpArgs(RouteOp(r))

\* the argument the handler passes to its first service call
RouteOpArg(r, a) ==
    CASE r = "tournaments.search_tournaments" -> a.name
      [] r \in {"cards.get_cards_by_rarity", "cards.get_card_info"} -> None
      [] OTHER -> a

\* the handlers that have an `except ValueError` clause before `except Exception`
HasValueErrorClause(r) ==
    r \in {"players.get_player", "players.get_player_battle_log",
           "players.get_current_deck", "players.get_player_stats",
           "clans.get_clan", "clans.get_clan_members", "clans.get_clan_war_log",
           "clans.get_clan_current_war"}

UnexpectedMessage(r) ==
    CASE r = "players.get_player" -> "An unexpected error occurred while fetching player data"
      [] r = "players.get_player_battle_log" -> "An unexpected error occurred while fetching battle log"
      [] r = "clans.get_clan" -> "An unexpected error occurred while fetching clan data"
      [] r = "clans.get_clan_members" -> "An unexpected error occurred while fetching clan members"
      [] r = "clans.get_clan_war_log" -> "An unexpected error occurred while fetching war log"
      [] r = "clans.get_clan_current_war" -> "An unexpected error occurred while fetching current war"
      [] r = "cards.get_all_cards" -> "An unexpected error occurred while fetching cards"
      [] r = "players.get_current_deck" -> "An unexpected error occurred while fetching current deck"
      [] r = "players.get_player_stats" -> "An unexpected error occurred while fetching player stats"
      [] r = "cards.get_cards_by_rarity" -> "An unexpected error occurred while fetching cards"
      [] r = "cards.get_card_info" -> "An unexpected error occurred while fetching card info"
      [] r = "leaderboards.get_pol_leaderboard" -> "An unexpected error occurred while fetching cards"
      [] r = "tournaments.search_tournaments" -> "An unexpected error occurred while searching tournaments"

Response(status, body) == [status |-> status, body |-> body]

MSG_NO_BATTLES == "No recent battles found for this player"
MSG_NO_TEAM == "No team data found in the most recent battle"
MSG_BAD_BATTLE_LOG == "Failed to extract deck from battle log. Battle data structure may be invalid."

\* str.lower()
LowerChar(c) == IF c = "A" THEN "a" ELSE c
Lower(s) == [i \in 1..Len(s) |-> LowerChar(s[i])]

\* `not v` for a JSON value
Falsy(v) ==
    CASE v.type = "null" -> TRUE
      [] v.type = "number" -> v.val = 0
      [] v.type = "object" -> DOMAIN v.val = {}
      [] OTHER -> Len(v.val) = 0

AttributeError(what) == Raise(Exc("AttributeError", <<what>>))

\* a deck lookup that reads the last battle of the log instead of the first
get_current_deck_try_LastBattle(battle_log) ==
    IF Falsy(battle_log) \/ battle_log.type # "array" THEN
        Return(Response(200, [success |-> TRUE, data |-> Arr(<<>>), message |-> MSG_NO_BATTLES]))
    ELSE
        LET most_recent_battle == battle_log.val[Len(battle_log.val)]
        IN  IF ~HasGet(most_recent_battle) THEN AttributeError("object has no attribute 'get'")
            ELSE
                LET team == DictGet(most_recent_battle, "team", Arr(<<>>))
                IN  IF Falsy(team) THEN
                        Return(Response(404, [success |-> FALSE, error |-> <<MSG_NO_TEAM>>]))
                    ELSE IF team.type = "number" THEN
                        Raise(Exc("TypeError", <<"object of type 'int' has no len()">>))
                    ELSE IF team.type = "object" THEN
                        Raise(Exc("KeyError", <<"0">>))
                    ELSE IF team.type = "string" \/ ~HasGet(team.val[1]) THEN
                        AttributeError("object has no attribute 'get'")
                    ELSE
                        LET player_data == team.val[1]
                            deck == DictGet(player_data, "cards", Arr(<<>>))
                            gameMode == DictGet(most_recent_battle, "gameMode", EmptyDict)
                        IN  IF ~HasGet(gameMode) THEN
                                AttributeError("object has no attribute 'get'")
                            ELSE
                                Return(Response(200,
                                    [success |-> TRUE,
                                     data |-> deck,
                                     battleTime |-> DictGet(most_recent_battle, "battleTime", Null),
                                     battleType |-> DictGet(most_recent_battle, "type", Null),
                                     gameMode |-> DictGet(gameMode, "name", Null)]))

\* get_current_deck, from the battle log on
get_current_deck_try(battle_log) ==
    IF Falsy(battle_log) \/ battle_log.type # "array" THEN
        Return(Response(200, [success |-> TRUE, data |-> Arr(<<>>), message |-> MSG_NO_BATTLES]))
    ELSE
        LET most_recent_battle == battle_log.val[1]
        IN  IF ~HasGet(most_recent_battle) THEN AttributeError("object has no attribute 'get'")
            ELSE
                LET team == DictGet(most_recent_battle, "team", Arr(<<>>))
                IN  IF Falsy(team) THEN
                        Return(Response(404, [success |-> FALSE, error |-> <<MSG_NO_TEAM>>]))
                    ELSE IF team.type = "number" THEN
                        Raise(Exc("TypeError", <<"object of type 'int' has no len()">>))
                    ELSE IF team.type = "object" THEN
                        Raise(Exc("KeyError", <<"0">>))
                    ELSE IF team.type = "string" \/ ~HasGet(team.val[1]) THEN
                        AttributeError("object has no attribute 'get'")
                    ELSE
                        LET player_data == team.val[1]
                            deck == DictGet(player_data, "cards", Arr(<<>>))
                            gameMode == DictGet(most_recent_battle, "gameMode", EmptyDict)
                        IN  IF ~HasGet(gameMode) THEN
                                AttributeError("object has no attribute 'get'")
                            ELSE
                                Return(Response(200,
                                    [success |-> TRUE,
                                     data |-> deck,
                                     battleTime |-> DictGet(most_recent_battle, "battleTime", Null),
                                     battleType |-> DictGet(most_recent_battle, "type", Null),
                                     gameMode |-> DictGet(gameMode, "name", Null)]))

\* get_player_stats, once both service calls have returned
get_player_stats_try(player_info) ==
    IF ~HasGet(player_info) THEN AttributeError("object has no attribute 'get'")
    ELSE Return(Response(200,
            [success |-> TRUE,
             data |-> Obj([player_tag |-> DictGet(player_info, "tag", Null),
                           player_name |-> DictGet(player_info, "name", Null),
                           current_trophies |-> DictGet(player_info, "trophies", Null),
                           best_trophies |-> DictGet(player_info, "bestTrophies", Null),
                           total_battles |-> DictGet(player_info, "battleCount", Num(0)),
                           total_wins |-> DictGet(player_info, "wins", Num(0)),
                           total_losses |-> DictGet(player_info, "losses", Num(0))])]))

\* `for card in all_cards` with card.get(key, '').lower() on every card:
\* the cards the loop visits, and whether the loop runs through without raising
LoopItems(all_cards) == IF all_cards.type = "array" THEN all_cards.val ELSE <<>>
LoopRaises(all_cards, key) ==
    \/ all_cards.type \in {"number", "null"}
    \/ all_cards.type \in {"object", "string"} /\ ~Falsy(all_cards)
    \/ all_cards.type = "array" /\
         \E i \in 1..Len(all_cards.val) :
            \/ ~HasGet(all_cards.val[i])
            \/ DictGet(all_cards.val[i], key, Str(<<>>)).type # "string"

\* get_cards_by_rarity, from the card listing on
get_cards_by_rarity_try(rarity, cards_data) ==
    IF ~HasGet(cards_data) THEN AttributeError("object has no attribute 'get'")
    ELSE
        LET all_cards == DictGet(cards_data, "items", Arr(<<>>))
        IN  IF LoopRaises(all_cards, "rarity") THEN
                Raise(Exc("TypeError", <<"cards cannot be filtered">>))
            ELSE
                LET filtered_cards ==
                        SelectSeq(LoopItems(all_cards),
                                  LAMBDA card : Lower(DictGet(card, "rarity", Str(<<>>)).val)
                                                    = Lower(rarity))
                IN  Return(Response(200,
                        [success |-> TRUE,
                         data |-> Obj([items |-> Arr(filtered_cards),
                                       count |-> Num(Len(filtered_cards))])]))

\* get_card_info, from the card listing on: searched_card is bound by a match
\* only, and the reply is built from the set literal {searched_card}
get_card_info_try(name, cards_data) ==
    IF ~HasGet(cards_data) THEN AttributeError("object has no attribute 'get'")
    ELSE
        LET all_cards == DictGet(cards_data, "items", Arr(<<>>))
        IN  IF LoopRaises(all_cards, "name") THEN
                Raise(Exc("TypeError", <<"cards cannot be searched">>))
            ELSE
                LET matches ==
                        SelectSeq(LoopItems(all_cards),
                                  LAMBDA card : Lower(DictGet(card, "name", Str(<<>>)).val)
                                                    = Lower(name))
                IN  IF matches = <<>> THEN
                        Raise(Exc("UnboundLocalError", <<"searched_card">>))
                    ELSE IF matches[Len(matches)].type \in {"object", "array"} THEN
                        Raise(Exc("TypeError", <<"unhashable type: 'dict'">>))
                    ELSE
                        Raise(Exc("TypeError", <<"Object of type set is not JSON serializable">>))

\* handlers that reply with the service's value without wrapping it
RouteTry_Bare(r, a, loc, value) ==
    CASE r = "players.get_current_deck" -> get_current_deck_try(value)
      [] r = "players.get_player_stats" -> get_player_stats_try(loc.player_info)
      [] r = "cards.get_cards_by_rarity" -> get_cards_by_rarity_try(a, value)
      [] r = "cards.get_card_info" -> get_card_info_try(a, value)
      [] OTHER -> Return(Response(200, [data |-> value]))

\* the rest of the handler's try block once its last service call has returned value
RouteTry(r, a, loc, value) ==
    CASE r = "players.get_current_deck" -> get_current_deck_try(value)
      [] r = "players.get_player_stats" -> get_player_stats_try(loc.player_info)
      [] r = "cards.get_cards_by_rarity" -> get_cards_by_rarity_try(a, value)
      [] r = "cards.get_card_info" -> get_card_info_try(a, value)
      [] OTHER -> Return(Response(200, [success |-> TRUE, data |-> value]))

\* the handler's except clauses, in order
RouteExcept(r, exc) ==
    IF HasValueErrorClause(r) /\ IsSubclass(exc.cls, "ValueError") THEN
        Response(400, [success |-> FALSE, error |-> exc.msg])
    ELSE IF r = "players.get_current_deck" /\
            \E base \in {"KeyError", "IndexError", "TypeError"} : IsSubclass(exc.cls, base) THEN
        Response(500, [success |-> FALSE, error |-> <<MSG_BAD_BATTLE_LOG>>])
    ELSE
        Response(500, [success |-> FALSE, error |-> <<UnexpectedMessage(r)>>])

\* a stats handler that replies from the player payload whatever the battle log call did
RouteResponse_StatsIgnoresBattleLog(r, a, loc, res) ==
    IF ~res.ok /\ ~(r = "players.get_player_stats" /\ loc # <<>>) THEN RouteExcept(r, res.exc)
    ELSE LET done == RouteTry(r, a, loc, IF res.ok THEN res.value ELSE Null)
         IN  IF done.ok THEN done.value ELSE RouteExcept(r, done.exc)

\* the try/except of a handler around its last service call returning or raising res
RouteResponse(r, a, loc, res) ==
    IF ~res.ok THEN RouteExcept(r, res.exc)
    ELSE LET done == RouteTry(r, a, loc, res.value)
         IN  IF done.ok THEN done.value ELSE RouteExcept(r, done.exc)

MSG_NAME_REQUIRED == "Tournament name is required. Use ?name=<tournament_name>"

---------------------------------------------------------------------------
(* State machine *)

NoResult == [pending |-> TRUE]
NoOutcome == [pending |-> TRUE]
NoHttp == [status |-> 0]
NoLocals == <<>>
NoService == [none |-> TRUE]
NoWorkers == <<>>

Init ==
    /\ pc = "idle"
    /\ route = "none"
    /\ op = "none"
    /\ arg = None
    /\ gets = 0
    /\ sent = <<>>
    /\ got = NoOutcome
    /\ result = NoResult
    /\ http = NoHttp
    /\ view_args = None
    /\ locals = NoLocals
    /\ config = ConfigUnloaded
    /\ app = AppUnimported
    /\ service = NoService
    /\ wire = <<>>
    /\ workers = NoWorkers

\* the process has not died of an exception at import time
Alive == config.status # "error" /\ app.state \notin {"import_error"}

\* config.py is imported with api_key.txt as found
ImportConfig(file) ==
    /\ Alive
    /\ pc = "idle"
    /\ config.status = "unloaded"
    /\ config' = ImportConfigModule(file)
    /\ UNCHANGED <<pc, route, op, arg, gets, sent, got, result, http, view_args, locals, app, service, wire, workers>>

\* app.py is imported: `from config import config`, then `from routes import ...`
StartApp(file) ==
    /\ Alive
    /\ pc = "idle"
    /\ app.state = "unimported"
    /\ config' = IF config.status = "unloaded" THEN ImportConfigModule(file) ELSE config
    /\ app' = IF config'.status = "error" THEN app ELSE ImportAppModule
    /\ UNCHANGED <<pc, route, op, arg, gets, sent, got, result, http, view_args, locals, service, wire, workers>>

\* ClashRoyaleService(...) is constructed on its own
Construct(c) ==
    /\ Alive
    /\ pc = "idle"
    /\ service' = ClashRoyaleService(c.api_key, c.base_url, c.timeout)
    /\ UNCHANGED <<pc, route, op, arg, gets, sent, got, result, http, view_args, locals, config, app, wire, workers>>

\* a route handler runs up to its service call's session.get
RouteRequest(r, a) ==
    /\ Alive
    /\ config.status = "loaded"
    /\ pc = "idle"
    /\ route' = r
    /\ IF r = "tournaments.search_tournaments" /\ (~a.has_name \/ a.name = <<>>) THEN
            /\ http' = Response(400, [success |-> FALSE, error |-> <<MSG_NAME_REQUIRED>>])
            /\ pc' = "returned"
            /\ UNCHANGED <<op, arg, gets, sent, got, result, service, wire>>
       ELSE
            /\ service' = get_clash_royale_service(config)
            /\ op' = RouteOp(r)
            /\ arg' = RouteOpArg(r, a)
            /\ sent' = Append(sent, OpRequest(op', arg'))
            /\ wire' = Append(wire, SessionGet(service', OpRequest(op', arg')))
            /\ gets' = 1
            /\ pc' = "waiting"
            /\ UNCHANGED <<got, result, http>>
    /\ view_args' = a
    /\ UNCHANGED <<locals, config, app, workers>>

\* a client operation is called directly and runs up to its session.get
ClientCall(o, a) ==
    /\ Alive
    /\ service # NoService
    /\ pc = "idle"
    /\ route' = "none"
    /\ op' = o
    /\ arg' = a
    /\ sent' = Append(sent, OpRequest(o, a))
    /\ wire' = Append(wire, SessionGet(service, OpRequest(o, a)))
    /\ gets' = 1
    /\ pc' = "waiting"
    /\ UNCHANGED <<got, result, http, view_args, locals, config, app, service, workers>>

\* session.get completes, and a failed request is sent again up to API_MAX_RETRIES times
Upstream_Retrying(o) ==
    /\ pc = "waiting"
    /\ got' = o
    /\ IF ~_make_request(o).ok /\ gets <= API_MAX_RETRIES THEN
            /\ gets' = gets + 1
            /\ sent' = Append(sent, sent[Len(sent)])
            /\ wire' = Append(wire, wire[Len(wire)])
            /\ UNCHANGED <<pc, op, result, http, locals>>
       ELSE
            /\ result' = OpReturn(op, _make_request(o))
            /\ IF route = "players.get_player_stats" /\ op = "get_player_info" /\ result'.ok THEN
                    /\ locals' = [player_info |-> result'.value]
                    /\ op' = "get_player_battle_log"
                    /\ sent' = Append(sent, OpRequest(op', arg))
                    /\ wire' = Append(wire, SessionGet(service, OpRequest(op', arg)))
                    /\ gets' = 1
                    /\ UNCHANGED <<pc, http>>
               ELSE
                    /\ http' = IF route = "none" THEN NoHttp
                               ELSE RouteResponse(route, view_args, locals, result')
                    /\ pc' = "returned"
                    /\ UNCHANGED <<op, gets, sent, wire, locals>>
    /\ UNCHANGED <<route, arg, view_args, config, app, service, workers>>

\* session.get completes with outcome o; the operation runs to its end, and the
\* handler runs on to its next service call or to its response
Upstream(o) ==
    /\ pc = "waiting"
    /\ got' = o
    /\ result' = OpReturn(op, _make_request(o))
    /\ IF route = "players.get_player_stats" /\ op = "get_player_info" /\ result'.ok THEN
            /\ locals' = [player_info |-> result'.value]
            /\ op' = "get_player_battle_log"
            /\ sent' = Append(sent, OpRequest(op', arg))
            /\ wire' = Append(wire, SessionGet(service, OpRequest(op', arg)))
            /\ gets' = 1
            /\ UNCHANGED <<pc, http>>
       ELSE
            /\ http' = IF route = "none" THEN NoHttp
                       ELSE RouteResponse(route, view_args, locals, result')
            /\ pc' = "returned"
            /\ UNCHANGED <<op, gets, sent, wire, locals>>
    /\ UNCHANGED <<route, arg, view_args, config, app, service, workers>>

\* the response has been delivered; the worker takes the next request
Finish ==
    /\ pc = "returned"
    /\ pc' = "idle"
    /\ route' = "none"
    /\ op' = "none"
    /\ arg' = None
    /\ gets' = 0
    /\ sent' = <<>>
    /\ got' = NoOutcome
    /\ result' = NoResult
    /\ http' = NoHttp
    /\ view_args' = None
    /\ locals' = NoLocals
    /\ wire' = <<>>
    /\ service' = IF route = "none" THEN service ELSE NoService
    /\ UNCHANGED <<config, app, workers>>

Next ==
    \/ \E f \in KeyFiles : ImportConfig(f)
    \/ \E f \in KeyFiles : StartApp(f)
    \/ \E c \in ConstructorArgs : Construct(c)
    \/ \E r \in Routes : \E a \in RouteArgs(r) : RouteRequest(r, a)
    \/ \E o \in ClientOps : \E a \in OpArgs(o) : ClientCall(o, a)
    \/ \E o \in Outcomes : Upstream(o)
    \/ Finish

Spec == Init /\ [][Next]_vars

---------------------------------------------------------------------------
(* One ClashRoyaleService instance shared by concurrent requests *)

Workers == 1..NumWorkers

\* the configuration of the process that shares its client
SharedConfig == ImportConfigModule([exists |-> TRUE, content |-> <<"k">>])
SharedClient == get_clash_royale_service(SharedConfig)

\* the operations the threads invoke, and what session.get does for them
SharedCalls ==
    {[op |-> "get_cards", arg |-> None],
     [op |-> "get_player_info", arg |-> <<"#", "a">>],
     [op |-> "get_clan_members", arg |-> <<"a">>],
     [op |-> "get_popular_clans", arg |-> [limit |-> 500]]}

SharedOutcomes ==
    {[status_code |-> 200, text |-> "{\"tag\":\"#A\"}"],
     [status_code |-> 200, text |-> "<html>Bad gateway</html>"],
     [status_code |-> 404, text |-> ""],
     [raised |-> "ReadTimeout", str |-> "Read timed out."]}

NoCall == [none |-> TRUE]
IdleWorker == [pc |-> "idle", op |-> "none", arg |-> None, url |-> <<>>, call |-> NoCall,
               got |-> NoOutcome, result |-> NoResult]

InitShared ==
    /\ pc = "idle"
    /\ route = "none"
    /\ op = "none"
    /\ arg = None
    /\ gets = 0
    /\ sent = <<>>
    /\ got = NoOutcome
    /\ result = NoResult
    /\ http = NoHttp
    /\ view_args = None
    /\ locals = NoLocals
    /\ config = SharedConfig
    /\ app = AppUnimported
    /\ service = SharedClient
    /\ wire = <<>>
    /\ workers = [w \in Workers |-> IdleWorker]

\* a thread's operation that sets the instance's timeout before building its url
SharedBuildUrl_SetsTimeout(w, c) ==
    /\ workers[w].pc = "idle"
    /\ service' = [service EXCEPT !.timeout = IF c.op = "get_cards" THEN 60 ELSE 5]
    /\ workers' = [workers EXCEPT ![w] =
            [@ EXCEPT !.pc = "built", !.op = c.op, !.arg = c.arg,
                      !.url = SessionGet(service, OpRequest(c.op, c.arg)).url]]
    /\ UNCHANGED <<pc, route, op, arg, gets, sent, got, result, http, view_args, locals,
                   config, app, wire>>

\* a thread enters an operation and _make_request builds the url from self.base_url
SharedBuildUrl(w, c) ==
    /\ workers[w].pc = "idle"
    /\ workers' = [workers EXCEPT ![w] =
            [@ EXCEPT !.pc = "built", !.op = c.op, !.arg = c.arg,
                      !.url = SessionGet(service, OpRequest(c.op, c.arg)).url]]
    /\ UNCHANGED <<pc, route, op, arg, gets, sent, got, result, http, view_args, locals,
                   config, app, service, wire>>

\* the thread calls session.get with that url, the params and self.timeout
SharedSend(w) ==
    /\ workers[w].pc = "built"
    /\ LET me == workers[w]
           get == SessionGet(service, OpRequest(me.op, me.arg))
       IN  workers' = [workers EXCEPT ![w] =
                [me EXCEPT !.pc = "waiting", !.call = [get EXCEPT !.url = me.url]]]
    /\ UNCHANGED <<pc, route, op, arg, gets, sent, got, result, http, view_args, locals,
                   config, app, service, wire>>

\* session.get completes for the thread and its operation runs to the end
SharedUpstream(w, o) ==
    /\ workers[w].pc = "waiting"
    /\ LET me == workers[w]
       IN  workers' = [workers EXCEPT ![w] =
                [me EXCEPT !.pc = "returned", !.got = o,
                           !.result = OpReturn(me.op, _make_request(o))]]
    /\ UNCHANGED <<pc, route, op, arg, gets, sent, got, result, http, view_args, locals,
                   config, app, service, wire>>

\* the thread takes its next request
SharedFinish(w) ==
    /\ workers[w].pc = "returned"
    /\ workers' = [workers EXCEPT ![w] = IdleWorker]
    /\ UNCHANGED <<pc, route, op, arg, gets, sent, got, result, http, view_args, locals,
                   config, app, service, wire>>

NextShared ==
    \/ \E w \in Workers : \E c \in SharedCalls : SharedBuildUrl(w, c)
    \/ \E w \in Workers : SharedSend(w)
    \/ \E w \in Workers : \E o \in SharedOutcomes : SharedUpstream(w, o)
    \/ \E w \in Workers : SharedFinish(w)

SpecShared == InitShared /\ [][NextShared]_vars

TypeOK ==
    /\ pc \in {"idle", "waiting", "returned"}
    /\ route \in Routes \cup {"none"}
    /\ op \in ClientOps \cup {"none"}
    /\ gets \in 0..1
    /\ Len(sent) \in 0..2

---------------------------------------------------------------------------
(* Properties *)

InFlight == pc \in {"waiting", "returned"} /\ op # "none"
Returned == pc = "returned" /\ op # "none"
LastSent == sent[Len(sent)]

\* str.replace('#', '') stated on its own: the characters other than '#', in order
WithoutHash(tag) == SelectSeq(tag, LAMBDA c : c # "#")

\* C1: for every clan tag t, get_clan_info(t) requests 'clans/%23' followed by
\* t upper-cased with every '#' removed.
C1_ClanEndpointCarriesPrefix ==
    (InFlight /\ op = "get_clan_info") =>
        LastSent.endpoint = S_clans_ \o PCT23 \o Upper(WithoutHash(arg))

\* what the code requests instead: the cleaned tag with no '%23' before it
C1_ClanEndpointAsCoded ==
    (InFlight /\ op = "get_clan_info") =>
        LastSent.endpoint = S_clans_ \o Upper(WithoutHash(arg))

\* C2: for a player tag t without a leading '#', get_player_info requests
\* 'players/%23'+t and get_player_battle_log 'players/%23'+t+'/battlelog'; for
\* '#'+u the leading '#' is replaced, so the tag segment is '%23'+u; t and '#'+t
\* give the same endpoint.
C2_PlayerEndpoint ==
    (InFlight /\ op \in {"get_player_info", "get_player_battle_log"}) =>
        LET u == IF arg[1] = "#" THEN Tail(arg) ELSE arg
            suffix == IF op = "get_player_info" THEN <<>> ELSE S_battlelog
        IN  /\ LastSent.endpoint = S_players \o PCT23 \o u \o suffix
            /\ arg[1] # "#" => OpRequest(op, <<"#">> \o arg) = LastSent

C2_Witness ==
    /\ pc = "waiting"
    /\ op = "get_player_info"
    /\ arg = <<"#", "a">>
    /\ LastSent.endpoint = S_players \o <<"%", "2", "3", "a">>

\* the kind of a failure: its exception class and the fixed head of its message
Kind(e) == <<e.cls, e.msg[1]>>

K_Timeout == <<"RequestException", MSG_TIMEOUT>>
K_NotFound == <<"ValueError", MSG_404>>
K_Forbidden == <<"ValueError", MSG_403>>
K_RateLimited == <<"ValueError", MSG_429>>
K_UpstreamError == <<"ValueError", MSG_STATUS>>
K_ConnectionFailed == <<"RequestException", MSG_CONNECT>>

Is2xx(status) == status >= 200 /\ status <= 299

\* C3: a 2xx response whose body is not well-formed JSON fails with a kind
\* distinct from the timeout, NotFound, Forbidden, RateLimited and
\* connection-failure kinds; it is not reported as a failure to connect.
C3_ParseFailureIsItsOwnKind ==
    (Returned /\ IsResponse(got) /\ Is2xx(got.status_code) /\ ~WellFormed(got.text)) =>
        /\ ~result.ok
        /\ Kind(result.exc) \notin {K_Timeout, K_NotFound, K_Forbidden, K_RateLimited,
                                    K_ConnectionFailed}

\* C4: a timed-out GET fails with the timeout kind, a network-level failure
\* with the connection-failure kind carrying the underlying message; the two
\* differ, and a connect timeout counts as a timeout.
C4_TimeoutVersusConnection ==
    (Returned /\ ~IsResponse(got)) =>
        IF got.raised \in {"ReadTimeout", "ConnectTimeout"} THEN
            /\ result = Raise(Exc("RequestException", <<MSG_TIMEOUT>>))
            /\ Kind(result.exc) # K_ConnectionFailed
        ELSE
            /\ result = Raise(Exc("RequestException", <<MSG_CONNECT, got.str>>))
            /\ Kind(result.exc) # K_Timeout

C4_Witness ==
    /\ Returned
    /\ ~IsResponse(got)
    /\ got.raised = "ConnectTimeout"
    /\ Kind(result.exc) = K_Timeout

\* C5: status 404, 403 and 429 fail with NotFound, Forbidden and RateLimited:
\* pairwise different, never a value, decided by the status code alone.
C5_StatusClassification ==
    (Returned /\ IsResponse(got) /\ got.status_code \in {404, 403, 429}) =>
        /\ ~result.ok
        /\ got.status_code = 404 => result = Raise(Exc("ValueError", <<MSG_404>>))
        /\ got.status_code = 403 => result = Raise(Exc("ValueError", <<MSG_403>>))
        /\ got.status_code = 429 => result = Raise(Exc("ValueError", <<MSG_429>>))
        /\ Cardinality({K_NotFound, K_Forbidden, K_RateLimited}) = 3

C5_Witness ==
    /\ Returned
    /\ IsResponse(got)
    /\ got.status_code = 403
    /\ got.text = "<html>Bad gateway</html>"
    /\ op = "get_cards"
    /\ Kind(result.exc) = K_Forbidden

\* C6: every status outside 200-299 other than 403, 404 and 429 (1xx and 3xx
\* included) fails with UpstreamError carrying the status and the body; no value
\* is returned for a non-2xx status.
C6_OtherStatusIsUpstreamError ==
    (Returned /\ IsResponse(got) /\ ~Is2xx(got.status_code)
              /\ got.status_code \notin {403, 404, 429}) =>
        result = Raise(Exc("ValueError",
                           <<MSG_STATUS, ToString(got.status_code), ": ", got.text>>))

\* C7: a rate-limit (429) failure is signalled in the class of timeout and
\* connection failure and in a different class from NotFound, so a caller
\* dispatching on the class treats it as infrastructure.
C7_RateLimitIsInfrastructure ==
    (Returned /\ IsResponse(got) /\ got.status_code = 429) =>
        /\ ~result.ok
        /\ result.exc.cls = K_Timeout[1]
        /\ result.exc.cls = K_ConnectionFailed[1]
        /\ result.exc.cls # K_NotFound[1]

\* C7 as amended: a 429 failure is signalled as ValueError, the class of
\* NotFound, and not as RequestException, the class of timeout and connection
\* failure; get_player answers it with 400 as it does a 404, and answers a
\* timeout or connection failure with 500.
C7_RateLimitIsClassedWithNotFound ==
    /\ (Returned /\ IsResponse(got) /\ got.status_code \in {429, 404}) =>
            /\ ~result.ok
            /\ result.exc.cls = "ValueError"
            /\ route = "players.get_player" => http.status = 400
    /\ (Returned /\ ~IsResponse(got)) =>
            /\ ~result.ok
            /\ result.exc.cls = "RequestException"
            /\ route = "players.get_player" => http.status = 500

C7_Witness ==
    /\ Returned
    /\ route = "players.get_player"
    /\ IsResponse(got)
    /\ got.status_code = 429
    /\ Kind(result.exc) = K_RateLimited
    /\ http.status = 400

\* C8: in every route handler a failure classified NotFound, Forbidden,
\* RateLimited or UpstreamError yields 400 with {success: false, error}, and
\* every other failure yields 500.
C8_RouteErrorMapping ==
    (Returned /\ route # "none" /\ ~result.ok) =>
        IF Kind(result.exc) \in {K_NotFound, K_Forbidden, K_RateLimited, K_UpstreamError} THEN
            /\ http.status = 400
            /\ http.body.success = FALSE
            /\ DOMAIN http.body = {"success", "error"}
        ELSE
            http.status = 500

---------------------------------------------------------------------------
(* The outbound GET *)

LastWire == wire[Len(wire)]

S_example_cards == S_example \o <<"/">> \o S_cards

\* C11: every GET goes to base_url without trailing slashes, then '/', then the
\* endpoint without leading slashes; a client built with
\* 'https://api.example.com/v1/' calling get_cards() requests
\* 'https://api.example.com/v1/cards'; every GET carries 'Authorization: Bearer
\* <credential>', 'Accept: application/json' and the configured timeout.
C11_OutboundGet ==
    InFlight =>
        /\ Len(wire) = Len(sent)
        /\ \A i \in 1..Len(wire) :
            /\ \E base \in {RStrip(c.base_url, "/") : c \in ConstructorArgs}
                           \cup {RStrip(CLASH_ROYALE_API_BASE_URL, "/")} :
                /\ base[Len(base)] # "/"
                /\ service.base_url = base
                /\ wire[i].url = base \o <<"/">> \o LStrip(sent[i].endpoint, "/")
                /\ wire[i].url[Len(base) + 2] # "/"
            /\ wire[i].params = sent[i].params
            /\ wire[i].headers.Authorization = S_Bearer \o service.api_key
            /\ wire[i].headers.Accept = "application/json"
            /\ wire[i].timeout = service.timeout
            /\ route # "none" =>
                /\ wire[i].timeout = API_REQUEST_TIMEOUT
                /\ wire[i].headers.Authorization = S_Bearer \o config.CLASH_ROYALE_API_KEY
            /\ (service.base_url = S_example /\ op = "get_cards") =>
                wire[i].url = S_example_cards

C11_Witness ==
    /\ pc = "waiting"
    /\ op = "get_cards"
    /\ service = ClashRoyaleService(<<"k">>, S_example \o <<"/">>, 30)
    /\ LastWire.url = S_example_cards
    /\ LastWire.headers.Authorization = S_Bearer \o <<"k">>
    /\ LastWire.timeout = 30

\* C12: get_popular_clans(limit) requests 'clans' with minScore=40000 and
\* limit=min(limit, 200), so the limit sent never exceeds 200; without an
\* argument it sends limit=200.
C12_PopularClans ==
    (InFlight /\ op = "get_popular_clans") =>
        /\ LastSent.endpoint = S_clans
        /\ DOMAIN LastSent.params = {"minScore", "limit"}
        /\ LastSent.params.minScore = 40000
        /\ LastSent.params.limit <= 200
        /\ arg = None => LastSent.params.limit = 200
        /\ arg # None =>
            LastSent.params.limit = (IF arg.limit <= 200 THEN arg.limit ELSE 200)

C12_Witness ==
    /\ pc = "waiting"
    /\ op = "get_popular_clans"
    /\ arg = [limit |-> 500]
    /\ LastSent.params = [minScore |-> 40000, limit |-> 200]

\* C13: get_pol_leaderboard(season) requests
\* 'locations/global/pathoflegend/players' exactly when season is 'current',
\* and 'locations/global/pathoflegend/{season}/rankings/players' otherwise;
\* the two paths differ for every season.
C13_PathOfLegends ==
    (InFlight /\ op = "get_pol_leaderboard") =>
        /\ (arg = S_current) <=> (LastSent.endpoint = S_pol_players)
        /\ arg # S_current => LastSent.endpoint = S_pol \o arg \o S_rankings_players
        /\ S_pol \o arg \o S_rankings_players # S_pol_players
        /\ LastSent.params = None

C13_Witness ==
    /\ pc = "waiting"
    /\ op = "get_pol_leaderboard"
    /\ arg = <<"C", "u", "r", "r", "e", "n", "t">>
    /\ LastSent.endpoint = S_pol \o <<"C", "u", "r", "r", "e", "n", "t">> \o S_rankings_players

\* C14: on a 2xx response with a well-formed JSON body _make_request returns
\* the parsed value itself, and every operation other than get_clan_members
\* hands that value to its caller unchanged.
C14_VerbatimReturn ==
    (Returned /\ IsResponse(got) /\ Is2xx(got.status_code) /\ WellFormed(got.text)) =>
        /\ _make_request(got) = Return(ParseJson(got.text))
        /\ op # "get_clan_members" => result = Return(ParseJson(got.text))

C14_Witness ==
    /\ Returned
    /\ op = "get_clan_info"
    /\ IsResponse(got)
    /\ got.status_code = 200
    /\ got.text = "{\"tag\":\"#A\"}"
    /\ result = Return(Obj([tag |-> Str(<<"#", "A">>)]))

---------------------------------------------------------------------------
(* Tag normalisation *)

PlayerOps == {"get_player_info", "get_player_battle_log"}
ClanOps == {"get_clan_info", "get_clan_members", "get_clan_war_log", "get_clan_current_war"}

Marks(s) == Len(SelectSeq(s, LAMBDA c : c \in {"#", "%"}))

SameClanTag(t) == {u \in Tags : Upper(WithoutHash(u)) = Upper(WithoutHash(t))}

\* C18: get_clan_war_log(t) and get_clan_current_war(t) request the endpoint of
\* get_clan_info(t) followed by '/warlog' and '/currentwar'; the three do not
\* change when the case of t changes or '#' characters are added or removed;
\* player operations leave the case of the tag alone.
C18_ClanTagNormalisation ==
    /\ (InFlight /\ op \in ClanOps) =>
        LET suffix == CASE op = "get_clan_war_log" -> S_warlog
                        [] op = "get_clan_current_war" -> S_currentwar
                        [] OTHER -> <<>>
        IN  /\ LastSent.endpoint = get_clan_info(arg).endpoint \o suffix
            /\ \A u \in SameClanTag(arg) : OpRequest(op, u) = LastSent
    /\ (InFlight /\ op \in PlayerOps) =>
        LET e == LastSent.endpoint
            suffix == IF op = "get_player_info" THEN <<>> ELSE S_battlelog
        IN  WithoutHash(SubSeq(e, Len(S_players) + 4, Len(e) - Len(suffix))) = WithoutHash(arg)

C18_Witness ==
    /\ pc = "waiting"
    /\ op = "get_clan_war_log"
    /\ arg = <<"#", "a">>
    /\ LastSent.endpoint = S_clans_ \o <<"A">> \o S_warlog
    /\ LastSent = get_clan_war_log(<<"A", "#">>)

---------------------------------------------------------------------------
(* Configuration and startup *)

Blank(s) == \A i \in 1..Len(s) : s[i] \in Whitespace

\* C16: loading the configuration fails when the key file is missing, empty,
\* whitespace-only or holds the placeholder; the constructor validates nothing;
\* so a handler never constructs a client with an empty key and never sends a
\* GET with an empty bearer token.
C16_CredentialValidated ==
    /\ \A f \in KeyFiles :
        (~f.exists \/ Blank(f.content) \/ f.content \in {PLACEHOLDER, PLACEHOLDER \o <<"\n">>})
            => ImportConfigModule(f).status = "error"
    /\ config.status = "loaded" => config.CLASH_ROYALE_API_KEY # <<>>
    /\ \A c \in ConstructorArgs :
        ClashRoyaleService(c.api_key, c.base_url, c.timeout).api_key = c.api_key
    /\ (InFlight /\ route # "none") =>
        /\ service.api_key # <<>>
        /\ \A i \in 1..Len(wire) : Len(wire[i].headers.Authorization) > Len(S_Bearer)

C16_Witness ==
    /\ config.status = "error"
    /\ config.exc = Exc("ValueError", <<MSG_REPLACE_KEY>>)
    /\ service = NoService
    /\ wire = <<>>

\* C20: once app.py has been imported with a valid configuration the
\* application exists with all five blueprints registered; startup never
\* aborts on a blueprint missing from the routes package.
C20_StartupRegistersAllBlueprints ==
    app.state # "unimported" =>
        /\ app.state = "created"
        /\ app.blueprints = {"player_bp", "clan_bp", "card_bp", "tournament_bp", "leaderboard_bp"}

---------------------------------------------------------------------------
(* The handlers' replies *)

Replied == pc = "returned" /\ route # "none"

---------------------------------------------------------------------------
(* Sharing one client *)

\* the GET an operation issues on the shared client when nothing else runs
Alone(o, a) == SessionGet(SharedClient, OpRequest(o, a))

---------------------------------------------------------------------------
(* The card and player handlers *)

\* the cards of a listing whose name equals name up to letter case
CardsNamed(cards_data, name) ==
    SelectSeq(cards_data.val.items.val, LAMBDA card : Lower(card.val.name.val) = Lower(name))

\* C21: GET /api/cards/<name> replies with a success envelope holding the
\* upstream card named <name> (up to case) whenever the listing has one, and
\* with an error envelope when it has none.
C21_CardInfo ==
    (Replied /\ route = "cards.get_card_info" /\ IsResponse(got)
        /\ got.status_code = 200 /\ got.text = B_cards) =>
        LET found == CardsNamed(result.value, view_args)
        IN  IF found # <<>> THEN
                /\ http.status = 200
                /\ http.body.success
                /\ \E i \in 1..Len(found) : http.body.data = found[i]
            ELSE
                ~http.body.success

\* C22: GET /api/players/<tag>/stats requests 'players/{tag}' and then
\* 'players/{tag}/battlelog'; when the first call fails the second is not made
\* and the reply is an error envelope; when the second fails the reply is an
\* error envelope too, although the statistics read the first payload only.
C22_PlayerStats ==
    (InFlight /\ route = "players.get_player_stats") =>
        /\ sent[1] = get_player_info(view_args)
        /\ Len(sent) = 2 =>
            /\ sent[2] = get_player_battle_log(view_args)
            /\ locals # NoLocals
            /\ op = "get_player_battle_log"
        /\ (Replied /\ locals = NoLocals) =>
            /\ Len(sent) = 1
            /\ ~result.ok
            /\ ~http.body.success
            /\ http.status \in {400, 500}
        /\ (Replied /\ locals # NoLocals) =>
            /\ Len(sent) = 2
            /\ ~result.ok => (~http.body.success /\ http.status \in {400, 500})
            /\ (result.ok /\ locals.player_info.type = "object") =>
                LET info == locals.player_info.val
                    stats == http.body.data.val
                IN  /\ http.status = 200
                    /\ http.body.success
                    /\ stats.player_tag = (IF "tag" \in DOMAIN info THEN info.tag ELSE Null)
                    /\ stats.total_battles =
                        (IF "battleCount" \in DOMAIN info THEN info.battleCount ELSE Num(0))
                    /\ \A other \in Bodies :
                        WellFormed(other) =>
                            http = RouteResponse(route, view_args, locals, Return(ParseJson(other)))

C22_Witness ==
    /\ Replied
    /\ route = "players.get_player_stats"
    /\ Len(sent) = 2
    /\ locals = [player_info |-> Obj([tag |-> Str(<<"#", "A">>)])]
    /\ IsResponse(got)
    /\ got.status_code = 404
    /\ http = Response(400, [success |-> FALSE, error |-> <<MSG_404>>])

\* the first entry of a battle log is an object with a non-empty 'team'
HasTeam(battle) ==
    /\ battle.type = "object"
    /\ "team" \in DOMAIN battle.val
    /\ ~Falsy(battle.val.team)

\* the 'cards' of the first team entry of a battle, or []
FirstDeck(battle) ==
    LET player_data == battle.val.team.val[1].val
    IN  IF "cards" \in DOMAIN player_data THEN player_data.cards ELSE Arr(<<>>)

\* C23 as stated: after its one battle-log call the handler replies 200 with
\* data=[] for an empty or non-list payload, 404 when the first battle has no
\* non-empty 'team', and otherwise 200 with the first team entry's 'cards'.
C23_CurrentDeckThreeCases ==
    (Replied /\ route = "players.get_current_deck" /\ result.ok) =>
        /\ Len(sent) = 1
        /\ IF Falsy(result.value) \/ result.value.type # "array" THEN
                /\ http.status = 200
                /\ http.body.success
                /\ http.body.data = Arr(<<>>)
           ELSE IF ~HasTeam(result.value.val[1]) THEN
                /\ http.status = 404
                /\ ~http.body.success
           ELSE
                /\ http.status = 200
                /\ http.body.success
                /\ http.body.data = FirstDeck(result.value.val[1])

\* the first battle has the shape the handler reads without raising
WellShaped(battle) ==
    /\ battle.val.team.type = "array"
    /\ battle.val.team.val[1].type = "object"
    /\ "gameMode" \in DOMAIN battle.val => battle.val.gameMode.type = "object"

\* C23: as above when the first battle is an object and, if it has a team, the
\* first team entry and the game mode are objects; any other first battle is
\* answered with 500 and success=false; no later battle is read.
C23_CurrentDeck ==
    (Replied /\ route = "players.get_current_deck" /\ result.ok) =>
        /\ Len(sent) = 1
        /\ sent[1] = get_player_battle_log(view_args)
        /\ IF Falsy(result.value) \/ result.value.type # "array" THEN
                /\ http.status = 200
                /\ http.body.success
                /\ http.body.data = Arr(<<>>)
           ELSE IF result.value.val[1].type # "object" THEN
                /\ http.status = 500
                /\ ~http.body.success
           ELSE IF ~HasTeam(result.value.val[1]) THEN
                /\ http.status = 404
                /\ ~http.body.success
           ELSE IF ~WellShaped(result.value.val[1]) THEN
                /\ http.status = 500
                /\ ~http.body.success
           ELSE
                /\ http.status = 200
                /\ http.body.success
                /\ http.body.data = FirstDeck(result.value.val[1])

C23_Witness ==
    /\ Replied
    /\ route = "players.get_current_deck"
    /\ IsResponse(got)
    /\ got.text = B_battles
    /\ http.status = 200
    /\ http.body.data = Arr(<<Str(<<"c", "1">>), Str(<<"c", "2">>)>>)

---------------------------------------------------------------------------
(* The tournament search *)

\* the step in which the search handler starts on a request
SearchStarts == pc = "idle" /\ route' = "tournaments.search_tournaments"

\* C24: GET /api/tournaments/search without a name, or with an empty one,
\* replies 400 with success=false, constructs no client and issues no GET;
\* with a non-empty name it issues exactly one GET, to 'tournaments', whose
\* only query parameter is the name as given.
C24_SearchTournaments ==
    /\ [][SearchStarts =>
            IF ~view_args'.has_name \/ view_args'.name = <<>> THEN
                /\ pc' = "returned"
                /\ http' = Response(400, [success |-> FALSE, error |-> <<MSG_NAME_REQUIRED>>])
                /\ service' = service
                /\ wire' = <<>>
                /\ sent' = <<>>
                /\ gets' = 0
            ELSE
                /\ pc' = "waiting"
                /\ sent' = <<Request(S_tournaments, [name |-> view_args'.name])>>
                /\ Len(wire') = 1
                /\ wire'[1].params = [name |-> view_args'.name]
                /\ gets' = 1]_vars
    /\ []((route = "tournaments.search_tournaments" /\ pc # "idle") =>
            /\ Len(sent) = Len(wire)
            /\ Len(sent) <= 1
            /\ pc = "waiting" => Len(sent) = 1)

C24_Witness ==
    /\ Replied
    /\ route = "tournaments.search_tournaments"
    /\ view_args = [has_name |-> TRUE, name |-> <<>>]
    /\ http.status = 400
    /\ service = NoService
    /\ wire = <<>>

====
